---- MODULE Spec2Model ----
(***************************************************************************)
(* A model of resticity's job scheduler (src/internal/scheduler.go) and    *)
(* of its websocket status hub (src/unnamed/part_000).                     *)
(*                                                                         *)
(* The specifications share the variables.  SpecRebuild runs concurrent    *)
(* calls of RescheduleBackups and SpecAlone one call at a time.  SpecRun   *)
(* runs the gocron invocations the timers start, with their three event    *)
(* listeners, and SpecStop the routes RunJobById and StopJobById with the  *)
(* runs they start; in both, calls of RescheduleBackups go on step by      *)
(* step, and the receivers of the two status channels are the environment. *)
(* SpecHub runs runHub, cleanClients, handlePing and the websocket handler *)
(* of RunServer; the sender of the output channel is its environment.      *)
(* SpecSilent is SpecHub with viewers that send nothing, under the         *)
(* scheduling of the Go runtime.  SpecSession feeds the handler of one     *)
(* viewer any event, SpecShare lets two handlers share the success events  *)
(* of one job, and SpecInlets runs the register and unregister cases of    *)
(* runHub with any sender.  The variable emitted is a history of the       *)
(* success events and broadcasts.                                          *)
(*                                                                         *)
(* Granularity.  A goroutine is split wherever another can run and see or  *)
(* change what it works on.  A send on a channel is a step of its own: the *)
(* sender waits there until a receiver takes the event, and what the       *)
(* sender does next is a later step.  SetRunningJob and DeleteRunningJob,  *)
(* which hold Scheduler.jmu, are split between their range over s.Jobs and *)
(* their write through the index, because the functions that take no lock  *)
(* replace s.Jobs in between; FindJobById, which only reads, is one step.  *)
(* RescheduleBackups, RecreateCtx, RunJobById and StopJobById, which take  *)
(* no lock, are split at their reads and writes of s.Jobs.  A slice index  *)
(* that is out of range panics, and a fatal error of the runtime ends the  *)
(* process (crashed).  runHub is split at its channel operations and at    *)
(* each write to a connection; cleanClients decides on a client and then   *)
(* waits at its send.  A range over the map clients is in progress from    *)
(* the step that starts it to the step that ends it, whatever the map      *)
(* holds: a store to the map in between can end the process, and an entry  *)
(* it creates is produced by the range or skipped.  The append of          *)
(* RescheduleBackups reads s.Jobs in one step and stores the slice it      *)
(* built in a later one.  Time is counted in seconds: a client's LastSeen  *)
(* is kept as its age, up to one second more than the timeout.             *)
(***************************************************************************)
EXTENDS Integers, Sequences, FiniteSets, Bags, TLC

\* ------------------------------------------------------------- bounds
MaxSched == 2
MaxTasks == 3
MaxInv == 2
MaxRebuild == 2
MaxCtx == 8
MaxChan == 1
MaxOp == 1
MaxForced == 1

\* ---------------------------------------------------------- constants
RunningTrue == "{\"running\": true}"
RunningFalse == "{\"running\": false}"
ErrText == "disk full"
ValidCron == "*/5 * * * *"
BadCron == "every day"

ChanMsg(id, msg) == [Id |-> id, Msg |-> msg]

\* The configured schedules: a cron schedule, a one-shot schedule (empty cron)
\* and one whose cron expression gocron cannot parse.
Schedules ==
  {[Id |-> "s1", Cron |-> ValidCron],
   [Id |-> "s2", Cron |-> ""],
   [Id |-> "s3", Cron |-> BadCron]}

JobIds == {sch.Id : sch \in Schedules}

UniqueIds(l) == \A a, b \in DOMAIN l : a # b => l[a].Id # l[b].Id

\* The values of settings.Config.Schedules: lists with unique ids.
ScheduleLists ==
  {l \in UNION {[1..k -> Schedules] : k \in 0..MaxSched} : UniqueIds(l)}

\* The values of settings.Config.Schedules while runs are examined: no
\* schedule, the cron schedule alone, and the one-shot schedule before it.
RunLists ==
  {l \in ScheduleLists : \/ l = <<>>
                          \/ (Len(l) = 1 /\ l[1].Id = "s1")
                          \/ (Len(l) = 2 /\ l[1].Id = "s2" /\ l[2].Id = "s1")}

\* The websocket connections of the viewers.
Conns == {"c1", "c2"}

\* cleanClients: time.Sleep(1 * time.Second), and the age beyond which it
\* unregisters a client, in seconds.
SweepInterval == 1
Timeout == 2

\* The events the handlers receive from the output and from the error channel.
OutEvents == {ChanMsg("s1", RunningTrue)}
ErrEvents == {ChanMsg("s1", ErrText)}

\* The events one handler is fed when its tables are examined: two jobs and
\* the empty id, the two payloads of the listeners, an error text, and the
\* payloads the filters drop.
SessIds == {"s1", "s2", ""}
SessOutEvents == {ChanMsg(id, msg) : id \in SessIds,
                                     msg \in {RunningTrue, RunningFalse, "", "{}"}}
SessErrEvents == {ChanMsg(id, msg) : id \in SessIds, msg \in {ErrText, "", "{}"}}
Viewer == "c1"

\* The success events that several handlers share when the order of their
\* broadcasts is examined: one job that starts and ends.
ShareEvents == {ChanMsg("s1", RunningTrue), ChanMsg("s1", RunningFalse)}

\* The connections that are sent to the inlets of runHub when its cases are
\* examined on their own.
InletConns == {"c1", "c2", "c3"}

VARIABLES
  Jobs,       \* Scheduler.Jobs
  tasks,      \* the tasks of the gocron runner, a bag of [name, cron]
  cancelled,  \* the contexts whose cancel function has been called
  rb,         \* the calls of RescheduleBackups in progress
  inv,        \* the runs of tasks in progress
  op,         \* the calls of RunJobById and StopJobById in progress
  outCh,      \* the events in *OutputCh
  errCh,      \* the events in *ErrorCh
  crashed,    \* the process has ended on a panic or a fatal error
  clients,    \* the map clients: connection -> seconds since LastSeen
  conn,       \* the state of each connection
  sess,       \* the websocket handler of each connection: its place, its
              \* tables outs and errs, the slice it has filtered out of
              \* one of them (sel) and the JSON text of that slice (j)
  ping,       \* the goroutine handlePing starts on a message
  hub,        \* runHub
  sweep,      \* cleanClients
  emitted     \* history: for each job id the payload of the latest success
              \* event a handler has received, and whether a broadcast to
              \* some client has carried it

schedVars == <<Jobs, tasks, cancelled, rb, inv, op>>
hubVars == <<clients, conn, sess, ping, hub, sweep, emitted>>

vars == <<Jobs, tasks, cancelled, rb, inv, op, outCh, errCh, crashed,
          clients, conn, sess, ping, hub, sweep, emitted>>

\* ------------------------------------------------------------ helpers
One(x) == SetToBag({x})
Replace(bag, old, new) == (bag (-) One(old)) (+) One(new)

\* The bag of the images of a bag's elements under a one-to-one G.
MapBag(G(_), bag) ==
  LET S == BagToSet(bag)
  IN [y \in {G(x) : x \in S} |-> CopiesIn(CHOOSE x \in S : G(x) = y, bag)]

NoSnap == [found |-> FALSE, done |-> FALSE, own |-> TRUE]
NoTask == [name |-> "", cron |-> ""]

\* The first index whose job has this Id; 0 when the loop ends without a match.
FirstIdxOrLast(jobs, id) ==
  IF \E i \in DOMAIN jobs : jobs[i].Id = id
    THEN CHOOSE i \in DOMAIN jobs :
           jobs[i].Id = id /\ \A k \in 1..(i - 1) : jobs[k].Id # id
    ELSE Len(jobs)
FirstIdx(jobs, id) ==
  IF \E i \in DOMAIN jobs : jobs[i].Id = id
    THEN CHOOSE i \in DOMAIN jobs :
           jobs[i].Id = id /\ \A k \in 1..(i - 1) : jobs[k].Id # id
    ELSE 0

\* The same over j.job.Name(): the name the task was created with.
FirstIdxByName(jobs, name) ==
  IF \E i \in DOMAIN jobs : jobs[i].job.name = name
    THEN CHOOSE i \in DOMAIN jobs :
           jobs[i].job.name = name
           /\ \A k \in 1..(i - 1) : jobs[k].job.name # name
    ELSE 0

\* ----------------------------------------------------------- contexts
\* A context is a number; the contexts that some record or goroutine still
\* refers to are numbered 1..n in the order of their creation.
JobCtxs(jobs) ==
  {jobs[i].Ctx : i \in DOMAIN jobs} \cup {jobs[i].Cancel : i \in DOMAIN jobs}

Refs(jobs, r, v, o) ==
  (JobCtxs(jobs)
   \cup UNION {JobCtxs(x.rd) : x \in BagToSet(r)}
   \cup {x.nctx : x \in BagToSet(v)}
   \cup {x.cancel : x \in BagToSet(o)}) \ {0}

HasFreshCtx == Cardinality(Refs(Jobs, rb, inv, op)) < MaxCtx

\* context.WithCancel(context.Background()): a context nothing refers to yet.
FreshCtx == Cardinality(Refs(Jobs, rb, inv, op)) + 1

RenJobs(f, jobs) ==
  [i \in DOMAIN jobs |-> [jobs[i] EXCEPT !.Ctx = f[jobs[i].Ctx],
                                         !.Cancel = f[jobs[i].Cancel]]]
RenRb(f, r) == [r EXCEPT !.rd = RenJobs(f, r.rd)]
RenInv(f, v) == [v EXCEPT !.nctx = f[v.nctx]]
RenOp(f, o) == [o EXCEPT !.cancel = f[o.cancel]]

\* The step's result, with the contexts nothing refers to any more forgotten.
Commit(jobs, r, v, o, canc) ==
  LET live == Refs(jobs, r, v, o)
      f == [c \in live \cup {0} |->
              IF c = 0 THEN 0 ELSE Cardinality({d \in live : d <= c})]
  IN /\ Jobs' = RenJobs(f, jobs)
     /\ rb' = MapBag(LAMBDA x : RenRb(f, x), r)
     /\ inv' = MapBag(LAMBDA x : RenInv(f, x), v)
     /\ op' = MapBag(LAMBDA x : RenOp(f, x), o)
     /\ cancelled' = {f[c] : c \in canc \cap live}

\* ------------------------------------------- Job Registry (under jmu)
\* The mutex jmu is held by the call of SetRunningJob or DeleteRunningJob that
\* has ranged over s.Jobs and not yet written.
LockFree ==
  \A w \in BagToSet(inv) : w.pc \notin {"set_write", "del_write", "del_force"}

\* s.Jobs[i].Running = true.
SetRunningJob(jobs, i) == [jobs EXCEPT ![i].Running = TRUE]

\* s.Jobs[i].Running = false.
DeleteRunningJob(jobs, i) == [jobs EXCEPT ![i].Running = FALSE]

\* s.Jobs[i].Force = false.
DeleteForce(jobs, i) == [jobs EXCEPT ![i].Force = FALSE]

\* What the caller of FindJobById gets: nil (found = FALSE) or a copy of the
\* Job, of which the model keeps whether its Ctx is cancelled already (done)
\* and whether its Cancel is the cancel function of its Ctx (own).
FindJobById(jobs, canc, id) ==
  LET i == FirstIdx(jobs, id)
  IN IF i = 0 THEN NoSnap
     ELSE [found |-> TRUE, done |-> jobs[i].Ctx \in canc,
           own |-> jobs[i].Cancel = jobs[i].Ctx]

GetRunningJobs(jobs) == SelectSeq(jobs, LAMBDA j : j.Running = TRUE)

\* gocron.NewJob fails on a cron expression it cannot parse.
NewJobFails(schedule) == schedule.Cron # "" /\ schedule.Cron # ValidCron

\* The task gocron.NewJob adds to the runner: gocron.WithName(schedule.Id), on
\* the schedule's cron or, with an empty cron, once in a thousand years.
NewTask(schedule) == [name |-> schedule.Id, cron |-> schedule.Cron]

\* The Job that RescheduleBackups appends for a schedule.
NewJobRecord(schedule, t, c) ==
  [Id |-> schedule.Id, job |-> t, Schedule |-> schedule,
   Running |-> FALSE, Force |-> FALSE, Ctx |-> c, Cancel |-> c]

\* ------------------------------------------------- RescheduleBackups
\* A call of RescheduleBackups in progress: the schedules it read, the index
\* of its loop, the task NewJob returned and the slice that append returned.
Rebuild(l) ==
  [pc |-> IF Len(l) = 0 THEN "done" ELSE "newjob", list |-> l, i |-> 1,
   j |-> NoTask, rd |-> <<>>]

\* A loop that ends after its first schedule.
RebuildNextFirstOnly(r) == [r EXCEPT !.pc = "done", !.j = NoTask, !.rd = <<>>]

RebuildNext(r) ==
  IF r.i >= Len(r.list)
    THEN [r EXCEPT !.pc = "done", !.j = NoTask, !.rd = <<>>]
    ELSE [r EXCEPT !.pc = "newjob", !.i = r.i + 1, !.j = NoTask, !.rd = <<>>]

\* config.Post: s.Jobs = []Job{} and the read of settings.Config, one of
\* lists, with fewer than n calls in progress.
RebuildStart(n, lists) ==
  /\ ~crashed
  /\ BagCardinality(rb) < n
  /\ \E l \in lists :
       Commit(<<>>, rb (+) One(Rebuild(l)), inv, op, cancelled)
  /\ UNCHANGED <<tasks, outCh, errCh, crashed, hubVars>>

\* A call that may overlap others.
RebuildReset == RebuildStart(MaxRebuild, ScheduleLists)

\* A call made while no other is in progress.
RebuildResetAlone == RebuildStart(1, ScheduleLists)

\* A call made while no other is in progress and runs are.
RebuildResetRun == RebuildStart(1, RunLists)

\* s.Gocron.NewJob for schedule i: the error is logged and the loop continues,
\* or the task joins the runner.
RebuildNewJob(r) ==
  /\ ~crashed
  /\ r.pc = "newjob"
  /\ LET schedule == r.list[r.i]
     IN IF NewJobFails(schedule)
          THEN /\ rb' = Replace(rb, r, RebuildNext(r))
               /\ UNCHANGED tasks
          ELSE /\ BagCardinality(tasks) < MaxTasks
               /\ tasks' = tasks (+) One(NewTask(schedule))
               /\ rb' = Replace(rb, r, [r EXCEPT !.pc = "read",
                                                 !.j = NewTask(schedule)])
  /\ UNCHANGED <<Jobs, cancelled, inv, op, outCh, errCh, crashed, hubVars>>

\* context.WithCancel and append(s.Jobs, Job{...}): append reads s.Jobs as it
\* is by now and returns a copy of it with the new Job at its end (with at
\* most MaxTasks appends since the program started, the slice it reads is full:
\* its length and its capacity are 0, 1 or 2, and append copies) ...
RebuildRead(r) ==
  /\ ~crashed
  /\ r.pc = "read"
  /\ HasFreshCtx
  /\ Commit(Jobs,
            Replace(rb, r,
                    [r EXCEPT !.pc = "write",
                              !.rd = Append(Jobs, NewJobRecord(r.list[r.i], r.j,
                                                               FreshCtx))]),
            inv, op, cancelled)
  /\ UNCHANGED <<tasks, outCh, errCh, crashed, hubVars>>

\* ... and s.Jobs = stores that slice.
RebuildAppend(r) ==
  /\ ~crashed
  /\ r.pc = "write"
  /\ Commit(r.rd, Replace(rb, r, RebuildNext(r)), inv, op, cancelled)
  /\ UNCHANGED <<tasks, outCh, errCh, crashed, hubVars>>

\* RescheduleBackups returns.
RebuildDone(r) ==
  /\ ~crashed
  /\ r.pc = "done"
  /\ rb' = rb (-) One(r)
  /\ UNCHANGED <<Jobs, tasks, cancelled, inv, op, outCh, errCh, crashed, hubVars>>

\* ------------------------------------------------- gocron invocations
\* A run of task t the runner has started: its listeners and its closure
\* follow.  The run is at the send of its BeforeJobRuns listener.
Run(t) ==
  [pc |-> "before", name |-> t.name, job |-> NoSnap, i |-> 0, nctx |-> 0]

\* The timer of a cron task fires.
TimerFire(t) ==
  /\ ~crashed
  /\ t.cron = ValidCron
  /\ BagCardinality(inv) < MaxInv
  /\ inv' = inv (+) One(Run(t))
  /\ UNCHANGED <<Jobs, tasks, cancelled, rb, op, outCh, errCh, crashed, hubVars>>

\* A write through an index that s.Jobs does not have panics: the goroutine
\* ends there, and the process with it unless the panic is recovered.
Panics == crashed' \in BOOLEAN

\* BeforeJobRuns: a receiver takes the {running: true} event the listener
\* waits to send; SetRunningJob(jobName) follows.
BeforeJobRuns(v) ==
  /\ ~crashed
  /\ v.pc = "before"
  /\ Len(outCh) < MaxChan
  /\ outCh' = Append(outCh, ChanMsg(v.name, RunningTrue))
  /\ inv' = Replace(inv, v, [v EXCEPT !.pc = "set"])
  /\ UNCHANGED <<Jobs, tasks, cancelled, rb, op, errCh, crashed, hubVars>>

\* SetRunningJob takes jmu and ranges over s.Jobs: with no job of that Id it
\* returns, else it goes to its write.
SetRunningFind(v) ==
  /\ ~crashed
  /\ v.pc = "set"
  /\ LockFree
  /\ LET i == FirstIdx(Jobs, v.name)
     IN inv' = Replace(inv, v, IF i = 0 THEN [v EXCEPT !.pc = "task"]
                               ELSE [v EXCEPT !.pc = "set_write", !.i = i])
  /\ UNCHANGED <<Jobs, tasks, cancelled, rb, op, outCh, errCh, crashed, hubVars>>

\* s.Jobs[i].Running = true, on the slice s.Jobs is by now.
SetRunningWrite(v) ==
  /\ ~crashed
  /\ v.pc = "set_write"
  /\ IF v.i > Len(Jobs)
       THEN /\ Panics
            /\ inv' = inv (-) One(v)
            /\ UNCHANGED Jobs
       ELSE /\ Jobs' = SetRunningJob(Jobs, v.i)
            /\ inv' = Replace(inv, v, [v EXCEPT !.pc = "task", !.i = 0])
            /\ UNCHANGED crashed
  /\ UNCHANGED <<tasks, cancelled, rb, op, outCh, errCh, hubVars>>

\* The task closure: s.FindJobById(schedule.Id), handed to restic.RunSchedule.
TaskFind(v) ==
  /\ ~crashed
  /\ v.pc = "task"
  /\ LockFree
  /\ inv' = Replace(inv, v, [v EXCEPT !.pc = "exec",
                                      !.job = FindJobById(Jobs, cancelled, v.name)])
  /\ UNCHANGED <<Jobs, tasks, cancelled, rb, op, outCh, errCh, crashed, hubVars>>

\* The head of both after-run listeners: a receiver takes the
\* {running: false} event the listener waits to send;
\* DeleteRunningJob(jobName) follows.
AfterHead(v) ==
  /\ ~crashed
  /\ v.pc = "exec"
  /\ Len(outCh) < MaxChan
  /\ outCh' = Append(outCh, ChanMsg(v.name, RunningFalse))
  /\ inv' = Replace(inv, v, [v EXCEPT !.pc = "del", !.job = NoSnap])
  /\ UNCHANGED <<Jobs, tasks, cancelled, rb, op, crashed, hubVars>>

\* The run ends without an error: gocron calls the AfterJobRuns listener.
AfterJobRuns(v) ==
  /\ AfterHead(v)
  /\ UNCHANGED errCh

\* The run ends with an error: gocron calls the AfterJobRunsWithError
\* listener, which sends nothing on the error channel.
AfterJobRunsWithError(v) ==
  /\ AfterHead(v)
  /\ UNCHANGED errCh

\* DeleteRunningJob takes jmu and ranges over s.Jobs: with no job of that Id
\* it returns and RecreateCtx follows, else it goes to its writes.
DeleteRunningFind(v) ==
  /\ ~crashed
  /\ v.pc = "del"
  /\ LockFree
  /\ LET i == FirstIdx(Jobs, v.name)
     IN inv' = Replace(inv, v, IF i = 0 THEN [v EXCEPT !.pc = "ctx"]
                               ELSE [v EXCEPT !.pc = "del_write", !.i = i])
  /\ UNCHANGED <<Jobs, tasks, cancelled, rb, op, outCh, errCh, crashed, hubVars>>

\* s.Jobs[i].Running = false, on the slice s.Jobs is by now.
DeleteRunningWrite(v) ==
  /\ ~crashed
  /\ v.pc = "del_write"
  /\ IF v.i > Len(Jobs)
       THEN /\ Panics
            /\ inv' = inv (-) One(v)
            /\ UNCHANGED Jobs
       ELSE /\ Jobs' = DeleteRunningJob(Jobs, v.i)
            /\ inv' = Replace(inv, v, [v EXCEPT !.pc = "del_force"])
            /\ UNCHANGED crashed
  /\ UNCHANGED <<tasks, cancelled, rb, op, outCh, errCh, hubVars>>

\* s.Jobs[i].Force = false, on the slice s.Jobs is by now; DeleteRunningJob
\* returns and RecreateCtx follows.
DeleteForceWrite(v) ==
  /\ ~crashed
  /\ v.pc = "del_force"
  /\ IF v.i > Len(Jobs)
       THEN /\ Panics
            /\ inv' = inv (-) One(v)
            /\ UNCHANGED Jobs
       ELSE /\ Jobs' = DeleteForce(Jobs, v.i)
            /\ inv' = Replace(inv, v, [v EXCEPT !.pc = "ctx", !.i = 0])
            /\ UNCHANGED crashed
  /\ UNCHANGED <<tasks, cancelled, rb, op, outCh, errCh, hubVars>>

\* RecreateCtx(jobName), which takes no lock: the loop finds the job and
\* context.WithCancel makes the new context; with no job of that name
\* RecreateCtx returns.
RecreateCtxFind(v) ==
  /\ ~crashed
  /\ v.pc = "ctx"
  /\ LET i == FirstIdxByName(Jobs, v.name)
     IN IF i = 0
          THEN Commit(Jobs, rb, inv (-) One(v), op, cancelled)
          ELSE /\ HasFreshCtx
               /\ Commit(Jobs, rb,
                         Replace(inv, v, [v EXCEPT !.pc = "ctx_new", !.i = i,
                                                   !.nctx = FreshCtx]),
                         op, cancelled)
  /\ UNCHANGED <<tasks, outCh, errCh, crashed, hubVars>>

\* s.Jobs[i].Ctx = ctx, on the slice s.Jobs is by now.
RecreateCtxCtx(v) ==
  /\ ~crashed
  /\ v.pc = "ctx_new"
  /\ IF v.i > Len(Jobs)
       THEN /\ Panics
            /\ Commit(Jobs, rb, inv (-) One(v), op, cancelled)
       ELSE /\ Commit([Jobs EXCEPT ![v.i].Ctx = v.nctx], rb,
                      Replace(inv, v, [v EXCEPT !.pc = "ctx_cancel"]), op, cancelled)
            /\ UNCHANGED crashed
  /\ UNCHANGED <<tasks, outCh, errCh, hubVars>>

\* s.Jobs[i].Cancel = cancel, on the slice s.Jobs is by now; RecreateCtx
\* returns.
RecreateCtxCancel(v) ==
  /\ ~crashed
  /\ v.pc = "ctx_cancel"
  /\ IF v.i > Len(Jobs)
       THEN /\ Panics
            /\ Commit(Jobs, rb, inv (-) One(v), op, cancelled)
       ELSE /\ Commit([Jobs EXCEPT ![v.i].Cancel = v.nctx], rb, inv (-) One(v),
                      op, cancelled)
            /\ UNCHANGED crashed
  /\ UNCHANGED <<tasks, outCh, errCh, hubVars>>

\* ------------------------------------------- RunJobById, StopJobById
\* A call of RunJobById or StopJobById that has found its job: the index of
\* the job in the slice it ranged over and the copy j of the job, of which
\* the model keeps the task, the Schedule.Id and the Cancel.
Call(pc, id, i, j) ==
  [pc |-> pc, id |-> id, i |-> i, task |-> j.job, sid |-> j.Schedule.Id,
   cancel |-> j.Cancel]

\* RunJobById: the range over s.Jobs finds the job and copies it; with no such
\* job the loop ends and nothing changes.
RunJobById(id) ==
  /\ ~crashed
  /\ LET i == FirstIdx(Jobs, id)
     IN IF i = 0
          THEN UNCHANGED op
          ELSE /\ BagCardinality(op) < MaxOp
               /\ op' = op (+) One([Call("force", id, i, Jobs[i]) EXCEPT !.cancel = 0])
  /\ UNCHANGED <<Jobs, tasks, cancelled, rb, inv, outCh, errCh, crashed, hubVars>>

\* s.Jobs[i].Force = true, on the slice s.Jobs is by now.
RunForce(o) ==
  /\ ~crashed
  /\ o.pc = "force"
  /\ IF o.i > Len(Jobs)
       THEN /\ Panics
            /\ op' = op (-) One(o)
            /\ UNCHANGED Jobs
       ELSE /\ Jobs' = [Jobs EXCEPT ![o.i].Force = TRUE]
            /\ op' = Replace(op, o, [o EXCEPT !.pc = "runnow"])
            /\ UNCHANGED crashed
  /\ UNCHANGED <<tasks, cancelled, rb, inv, outCh, errCh, hubVars>>

\* j.job.RunNow(): the runner starts a run of the task of the copy; the call
\* returns.
RunNow(o) ==
  /\ ~crashed
  /\ o.pc = "runnow"
  /\ BagCardinality(inv) < MaxForced
  /\ inv' = inv (+) One(Run(o.task))
  /\ op' = op (-) One(o)
  /\ UNCHANGED <<Jobs, tasks, cancelled, rb, outCh, errCh, crashed, hubVars>>

\* StopJobById: the range over s.Jobs finds the job and copies it, and the
\* call waits to send the {running: false} event; with no such job the loop
\* ends and nothing changes.
StopJobById(id) ==
  /\ ~crashed
  /\ LET i == FirstIdx(Jobs, id)
     IN IF i = 0
          THEN UNCHANGED op
          ELSE /\ BagCardinality(op) < MaxOp
               /\ op' = op (+) One([Call("send", id, i, Jobs[i]) EXCEPT !.task = NoTask])
  /\ UNCHANGED <<Jobs, tasks, cancelled, rb, inv, outCh, errCh, crashed, hubVars>>

\* A receiver takes the event of the call.
StopSend(o) ==
  /\ ~crashed
  /\ o.pc = "send"
  /\ Len(outCh) < MaxChan
  /\ outCh' = Append(outCh, ChanMsg(o.sid, RunningFalse))
  /\ op' = Replace(op, o, [o EXCEPT !.pc = "cancel"])
  /\ UNCHANGED <<Jobs, tasks, cancelled, rb, inv, errCh, crashed, hubVars>>

\* j.Cancel(), the cancel function of the copy; the call returns.
StopCancel(o) ==
  /\ ~crashed
  /\ o.pc = "cancel"
  /\ Commit(Jobs, rb, inv, op (-) One(o), cancelled \cup {o.cancel})
  /\ UNCHANGED <<tasks, outCh, errCh, crashed, hubVars>>

\* The receiver of the output channel is done with the event it took and
\* receives again.
TakeOutput ==
  /\ ~crashed
  /\ outCh # <<>>
  /\ outCh' = Tail(outCh)
  /\ UNCHANGED <<Jobs, tasks, cancelled, rb, inv, op, errCh, crashed, hubVars>>

\* --------------------------------------------------- websocket handler
WsMsg(id, out, err) == [Id |-> id, Out |-> out, Err |-> err]

\* The table with m in the place of the entry of its Id, or appended; an
\* event with an empty Id leaves the table as it is.
UpsertAppends(table, m) == IF m.Id = "" THEN table ELSE Append(table, m)
Upsert(table, m) ==
  IF m.Id = "" THEN table
  ELSE IF \E i \in DOMAIN table : table[i].Id = m.Id
    THEN LET i == CHOOSE k \in DOMAIN table :
                    table[k].Id = m.Id /\ \A n \in 1..(k - 1) : table[n].Id # m.Id
         IN [table EXCEPT ![i] = m]
    ELSE Append(table, m)

FilterOutsKeepsBraces(outs) == SelectSeq(outs, LAMBDA o : o.Out # "")
FilterOuts(outs) == SelectSeq(outs, LAMBDA o : o.Out # "" /\ o.Out # "{}")
FilterErrs(errs) == SelectSeq(errs, LAMBDA o : o.Err # "" /\ o.Err # "{}")

\* A string as a JSON string: quoted, its quotes escaped.
JsonString(str) ==
  CASE str = RunningTrue -> "\"{\\\"running\\\": true}\""
    [] str = RunningFalse -> "\"{\\\"running\\\": false}\""
    [] OTHER -> "\"" \o str \o "\""

JsonWsMsg(m) ==
  "{\"id\":" \o JsonString(m.Id) \o ",\"out\":" \o JsonString(m.Out)
  \o ",\"err\":" \o JsonString(m.Err) \o "}"

RECURSIVE JsonList(_)
JsonList(l) ==
  IF Len(l) = 0 THEN ""
  ELSE IF Len(l) = 1 THEN JsonWsMsg(l[1])
  ELSE JsonWsMsg(l[1]) \o "," \o JsonList(Tail(l))

\* json.Marshal of a slice of WsMsg.
Marshal(l) == "[" \o JsonList(l) \o "]"

\* The history after the success event o: a payload that differs from the
\* latest one of the job has not been broadcast yet.
Emit(h, o) ==
  [id \in DOMAIN h \cup {o.Id} |->
     IF id # o.Id \/ (id \in DOMAIN h /\ h[id].Out = o.Msg) THEN h[id]
     ELSE [Out |-> o.Msg, shown |-> FALSE]]

\* The history after a broadcast of the slice sel to some client.
Show(h, sel) ==
  [id \in DOMAIN h |->
     IF \E i \in DOMAIN sel : sel[i].Id = id /\ sel[i].Out = h[id].Out
       THEN [h[id] EXCEPT !.shown = TRUE]
       ELSE h[id]]

\* A viewer opens a websocket: the handler starts, at register <- c.
Connect(c) ==
  /\ ~crashed
  /\ conn[c] = "off"
  /\ conn' = [conn EXCEPT ![c] = "open"]
  /\ sess' = [sess EXCEPT ![c].pc = "register"]
  /\ UNCHANGED <<clients, ping, hub, sweep, outCh, errCh, crashed,
               emitted, schedVars>>

\* The viewer goes away: reads of the connection fail from now on, and writes
\* may.
Disconnect(c) ==
  /\ ~crashed
  /\ conn[c] = "open"
  /\ conn' = [conn EXCEPT ![c] = "gone"]
  /\ UNCHANGED <<clients, sess, ping, hub, sweep, outCh, errCh, crashed,
               emitted, schedVars>>

\* case o := <-*outputChan, up to broadcast <- string(j).  The sender of the
\* channel is the environment of the handlers: o is the event it hands over.
OutputCase(c, o) ==
  /\ ~crashed
  /\ sess[c].pc = "loop"
  /\ LET outs == Upsert(sess[c].outs, WsMsg(o.Id, o.Msg, ""))
         sel == FilterOuts(outs)
     IN sess' = [sess EXCEPT ![c].outs = outs, ![c].pc = "send",
                             ![c].sel = sel, ![c].j = Marshal(sel)]
  /\ emitted' = Emit(emitted, o)
  /\ UNCHANGED <<clients, conn, ping, hub, sweep, outCh, errCh, crashed, schedVars>>

\* case e := <-*errorChan, up to broadcast <- string(j), likewise.
ErrorCase(c, e) ==
  /\ ~crashed
  /\ sess[c].pc = "loop"
  /\ LET errs == Upsert(sess[c].errs, WsMsg(e.Id, "", e.Msg))
         sel == FilterErrs(errs)
     IN sess' = [sess EXCEPT ![c].errs = errs, ![c].pc = "send",
                             ![c].sel = sel, ![c].j = Marshal(sel)]
  /\ UNCHANGED <<clients, conn, ping, hub, sweep, outCh, errCh, crashed,
               emitted, schedVars>>

\* ------------------------------------------------------------- runHub
\* A write of the map clients that no lock protects: it stores m, or, when
\* another goroutine is inside the map (busy), the runtime may end the process
\* with "concurrent map writes" or "concurrent map iteration and map write".
MapWrite(m, busy) ==
  \/ /\ clients' = m
     /\ UNCHANGED crashed
  \/ /\ busy
     /\ crashed' = TRUE
     /\ UNCHANGED clients

\* Some goroutine of handlePing, other than those of except, is inside the
\* map: in its range with no entry of its connection found so far (range), or
\* at the entry of its connection (found).
PingInMap(except) == \E d \in Conns \ except : ping[d] \in {"range", "found"}

Min(a, b) == IF a < b THEN a ELSE b

Put(m, c, v) == [d \in DOMAIN m \cup {c} |-> IF d = c THEN v ELSE m[d]]
DeleteAll(m, c) == [d \in {} |-> 0]
Delete(m, c) == [d \in DOMAIN m \ {c} |-> m[d]]

\* runHub at its select; sel is history, the slice that message is the JSON of.
HubSelect ==
  [pc |-> "select", msg |-> "", sel |-> <<>>, todo |-> {}, cur |-> ""]

\* What a range in progress has still to produce (todo) once clients[c] is
\* stored: an entry created during the range is produced by it or skipped.
Produced(todo, ranging, c) ==
  IF ranging /\ c \notin DOMAIN clients THEN {todo, todo \cup {c}} ELSE {todo}

\* The range of cleanClients is in progress, also while it waits at its send.
Sweeping == sweep.pc \in {"range", "send"}

\* register <- c in the handler and case connection := <-register in runHub:
\* clients[connection] = client{LastSeen: time.Now()}; the handler goes on to
\* its loop.
Register(c) ==
  /\ ~crashed
  /\ sess[c].pc = "register"
  /\ hub.pc = "select"
  /\ MapWrite(Put(clients, c, 0), sweep.pc = "range" \/ PingInMap({}))
  /\ \E t \in Produced(sweep.todo, Sweeping, c) : sweep' = [sweep EXCEPT !.todo = t]
  /\ sess' = [sess EXCEPT ![c].pc = "loop"]
  /\ UNCHANGED <<conn, ping, hub, outCh, errCh, emitted, schedVars>>

\* broadcast <- string(j) in the handler and case message := <-broadcast in
\* runHub, which starts the range over clients, whatever the map holds.
Broadcast(c) ==
  /\ ~crashed
  /\ sess[c].pc = "send"
  /\ hub.pc = "select"
  /\ hub' = [pc |-> "write", msg |-> sess[c].j, sel |-> sess[c].sel,
             todo |-> DOMAIN clients, cur |-> ""]
  /\ sess' = [sess EXCEPT ![c].pc = "loop", ![c].sel = <<>>, ![c].j = ""]
  /\ UNCHANGED <<clients, conn, ping, sweep, outCh, errCh, crashed, emitted,
               schedVars>>

HubNext(todo) == [hub EXCEPT !.todo = todo]

\* connection.WriteMessage returns no error: the client has the payload and
\* the range goes on.
WriteMessage(c) ==
  /\ ~crashed
  /\ hub.pc = "write"
  /\ c \in hub.todo
  /\ conn[c] \in {"open", "gone"}
  /\ hub' = HubNext(hub.todo \ {c})
  /\ emitted' = Show(emitted, hub.sel)
  /\ UNCHANGED <<clients, conn, sess, ping, sweep, outCh, errCh, crashed,
               schedVars>>

\* connection.WriteMessage returns an error: runHub goes to
\* unregister <- connection.
WriteError(c) ==
  /\ ~crashed
  /\ hub.pc = "write"
  /\ c \in hub.todo
  /\ conn[c] = "gone"
  /\ hub' = [hub EXCEPT !.pc = "unregister", !.cur = c]
  /\ UNCHANGED <<clients, conn, sess, ping, sweep, outCh, errCh, crashed,
               emitted, schedVars>>

\* The range of the broadcast case has produced every entry: runHub is back
\* at its select.
BroadcastDone ==
  /\ ~crashed
  /\ hub.pc = "write"
  /\ hub.todo = {}
  /\ hub' = HubSelect
  /\ UNCHANGED <<clients, conn, sess, ping, sweep, outCh, errCh, crashed,
               emitted, schedVars>>

\* The cases of runHub on their own, whoever the sender is.
\* case connection := <-register: clients[connection] = client{LastSeen: now}.
RegisterCase(c) ==
  /\ ~crashed
  /\ hub.pc = "select"
  /\ MapWrite(Put(clients, c, 0), sweep.pc = "range" \/ PingInMap({}))
  /\ \E t \in Produced(sweep.todo, Sweeping, c) : sweep' = [sweep EXCEPT !.todo = t]
  /\ UNCHANGED <<conn, sess, ping, hub, outCh, errCh, emitted, schedVars>>

\* case connection := <-unregister: delete(clients, connection); a range in
\* progress does not produce the entry any more.
UnregisterCase(c) ==
  /\ ~crashed
  /\ hub.pc = "select"
  /\ MapWrite(Delete(clients, c), sweep.pc = "range" \/ PingInMap({}))
  /\ sweep' = [sweep EXCEPT !.todo = @ \ {c}]
  /\ UNCHANGED <<conn, sess, ping, hub, outCh, errCh, emitted, schedVars>>

\* The receive of the channel unregister, which only the select of runHub does.
UnregisterReady == hub.pc = "select"

\* ------------------------------------------------------- cleanClients
SweepNext(todo) == [pc |-> "range", slept |-> 0, todo |-> todo, cur |-> ""]

\* time.Sleep returns and the range over clients starts, whatever the map
\* holds.
CleanWake ==
  /\ ~crashed
  /\ sweep.pc = "sleep"
  /\ sweep.slept >= SweepInterval
  /\ sweep' = SweepNext(DOMAIN clients)
  /\ UNCHANGED <<clients, conn, sess, ping, hub, outCh, errCh, crashed,
               emitted, schedVars>>

\* The range yields a client seen within the timeout (or does not yield the
\* connection any more): the loop goes on.
CleanSkip(c) ==
  /\ ~crashed
  /\ sweep.pc = "range"
  /\ c \in sweep.todo
  /\ ~(c \in DOMAIN clients /\ clients[c] > Timeout)
  /\ sweep' = SweepNext(sweep.todo \ {c})
  /\ UNCHANGED <<clients, conn, sess, ping, hub, outCh, errCh, crashed,
               emitted, schedVars>>

\* The range yields a client not seen for longer than the timeout: the sweep
\* goes to unregister <- connection and waits there for runHub.
CleanStale(c) ==
  /\ ~crashed
  /\ sweep.pc = "range"
  /\ c \in sweep.todo
  /\ c \in DOMAIN clients
  /\ clients[c] > Timeout
  /\ sweep' = [sweep EXCEPT !.pc = "send", !.cur = c]
  /\ UNCHANGED <<clients, conn, sess, ping, hub, outCh, errCh, crashed,
               emitted, schedVars>>

\* The range has produced every entry: the sweep sleeps again.
CleanDone ==
  /\ ~crashed
  /\ sweep.pc = "range"
  /\ sweep.todo = {}
  /\ sweep' = [pc |-> "sleep", slept |-> 0, todo |-> {}, cur |-> ""]
  /\ UNCHANGED <<clients, conn, sess, ping, hub, outCh, errCh, crashed,
               emitted, schedVars>>

\* unregister <- connection in the sweep and case connection := <-unregister
\* in runHub: delete(clients, connection), whatever the entry holds by now,
\* while the sweep goes on with its range over the same map.
Unregister(c) ==
  /\ ~crashed
  /\ sweep.pc = "send"
  /\ sweep.cur = c
  /\ UnregisterReady
  /\ MapWrite(Delete(clients, c), TRUE)
  /\ sweep' = SweepNext(sweep.todo \ {c})
  /\ UNCHANGED <<conn, sess, ping, hub, outCh, errCh, emitted, schedVars>>

\* --------------------------------------------------------- handlePing
\* c.ReadMessage() returns a message of the viewer, and the goroutine started
\* for it begins its range over clients: it comes to the entry of this
\* connection, or, with no such entry, it is in a range that goes through
\* whatever the map holds.
PingRead(c) ==
  /\ ~crashed
  /\ sess[c].pc \in {"loop", "send"}
  /\ conn[c] = "open"
  /\ ping[c] = "idle"
  /\ ping' = [ping EXCEPT ![c] = IF c \in DOMAIN clients THEN "found" ELSE "range"]
  /\ UNCHANGED <<clients, conn, sess, hub, sweep, outCh, errCh, crashed,
               emitted, schedVars>>

\* The range of the goroutine ends with no entry of its connection found, and
\* the goroutine with it.
PingMiss(c) ==
  /\ ~crashed
  /\ ping[c] = "range"
  /\ ping' = [ping EXCEPT ![c] = "idle"]
  /\ UNCHANGED <<clients, conn, sess, hub, sweep, outCh, errCh, crashed,
               emitted, schedVars>>

\* c.LastSeen = time.Now(); clients[connection] = c, and the goroutine ends.
PingWrite(c) ==
  /\ ~crashed
  /\ ping[c] = "found"
  /\ MapWrite(Put(clients, c, 0),
              hub.pc = "write" \/ sweep.pc = "range" \/ PingInMap({c}))
  /\ \E t \in Produced(hub.todo, hub.pc = "write", c) : hub' = [hub EXCEPT !.todo = t]
  /\ \E t \in Produced(sweep.todo, Sweeping, c) : sweep' = [sweep EXCEPT !.todo = t]
  /\ ping' = [ping EXCEPT ![c] = "idle"]
  /\ UNCHANGED <<conn, sess, outCh, errCh, emitted, schedVars>>

\* -------------------------------------------------------- environment
\* A second passes.
Tick ==
  /\ ~crashed
  /\ clients' = [c \in DOMAIN clients |-> Min(clients[c] + 1, Timeout + 1)]
  /\ sweep' = IF sweep.pc = "sleep"
                THEN [sweep EXCEPT !.slept = Min(sweep.slept + 1, SweepInterval)]
                ELSE sweep
  /\ UNCHANGED <<conn, sess, ping, hub, outCh, errCh, crashed,
               emitted, schedVars>>

\* ------------------------------------------------------ specification
InitHub ==
  /\ clients = [c \in {} |-> 0]
  /\ conn = [c \in Conns |-> "off"]
  /\ sess = [c \in Conns |-> [pc |-> "off", outs |-> <<>>, errs |-> <<>>,
                            sel |-> <<>>, j |-> ""]]
  /\ ping = [c \in Conns |-> "idle"]
  /\ hub = HubSelect
  /\ sweep = [pc |-> "sleep", slept |-> 0, todo |-> {}, cur |-> ""]
  /\ emitted = [id \in {} |-> 0]

InitSched ==
  /\ Jobs = <<>>
  /\ tasks = EmptyBag
  /\ cancelled = {}
  /\ rb = EmptyBag
  /\ inv = EmptyBag
  /\ op = EmptyBag
  /\ outCh = <<>>
  /\ errCh = <<>>
  /\ crashed = FALSE

Init == InitSched /\ InitHub

RebuildSteps ==
  \/ RebuildReset
  \/ \E r \in BagToSet(rb) : RebuildNewJob(r)
  \/ \E r \in BagToSet(rb) : RebuildRead(r)
  \/ \E r \in BagToSet(rb) : RebuildAppend(r)
  \/ \E r \in BagToSet(rb) : RebuildDone(r)

\* The listeners and the closure of the runs in progress, and the receiver of
\* their events.
ListenerSteps ==
  \/ \E v \in BagToSet(inv) : BeforeJobRuns(v)
  \/ \E v \in BagToSet(inv) : SetRunningFind(v)
  \/ \E v \in BagToSet(inv) : SetRunningWrite(v)
  \/ \E v \in BagToSet(inv) : TaskFind(v)
  \/ \E v \in BagToSet(inv) : AfterJobRuns(v)
  \/ \E v \in BagToSet(inv) : AfterJobRunsWithError(v)
  \/ \E v \in BagToSet(inv) : DeleteRunningFind(v)
  \/ \E v \in BagToSet(inv) : DeleteRunningWrite(v)
  \/ \E v \in BagToSet(inv) : DeleteForceWrite(v)
  \/ \E v \in BagToSet(inv) : RecreateCtxFind(v)
  \/ \E v \in BagToSet(inv) : RecreateCtxCtx(v)
  \/ \E v \in BagToSet(inv) : RecreateCtxCancel(v)
  \/ TakeOutput

\* The routes that run and stop a job by hand.
CallSteps ==
  \/ \E id \in JobIds : RunJobById(id)
  \/ \E o \in BagToSet(op) : RunForce(o)
  \/ \E o \in BagToSet(op) : RunNow(o)
  \/ \E id \in JobIds : StopJobById(id)
  \/ \E o \in BagToSet(op) : StopSend(o)
  \/ \E o \in BagToSet(op) : StopCancel(o)

\* Concurrent calls of RescheduleBackups, with no run.
SpecRebuild == Init /\ [][RebuildSteps]_vars

\* Calls of RescheduleBackups one after the other, with no run.
AloneSteps ==
  \/ RebuildResetAlone
  \/ \E r \in BagToSet(rb) : RebuildNewJob(r)
  \/ \E r \in BagToSet(rb) : RebuildRead(r)
  \/ \E r \in BagToSet(rb) : RebuildAppend(r)
  \/ \E r \in BagToSet(rb) : RebuildDone(r)

SpecAlone == Init /\ [][AloneSteps]_vars

\* Calls of RescheduleBackups one at a time, while jobs run.
RunRebuildSteps ==
  \/ RebuildResetRun
  \/ \E r \in BagToSet(rb) : RebuildNewJob(r)
  \/ \E r \in BagToSet(rb) : RebuildRead(r)
  \/ \E r \in BagToSet(rb) : RebuildAppend(r)
  \/ \E r \in BagToSet(rb) : RebuildDone(r)

\* The runs the timers start, with calls of RescheduleBackups one at a time.
NextRun ==
  \/ RunRebuildSteps
  \/ \E t \in BagToSet(tasks) : TimerFire(t)
  \/ ListenerSteps

SpecRun == Init /\ [][NextRun]_vars

\* The runs started and the jobs stopped by hand, with calls of
\* RescheduleBackups one at a time.
NextStop == RunRebuildSteps \/ ListenerSteps \/ CallSteps

SpecStop == Init /\ [][NextStop]_vars

\* The hub, the sweep, the websocket handlers and their ping goroutines, with
\* a scheduler that reports no error.
HubSteps ==
  \/ \E c \in Conns : Connect(c)
  \/ \E c \in Conns : Disconnect(c)
  \/ \E c \in Conns : Register(c)
  \/ \E c \in Conns, o \in OutEvents : OutputCase(c, o)
  \/ \E c \in Conns : Broadcast(c)
  \/ \E c \in Conns : WriteMessage(c)
  \/ \E c \in Conns : WriteError(c)
  \/ BroadcastDone
  \/ CleanWake
  \/ \E c \in Conns : CleanSkip(c)
  \/ \E c \in Conns : CleanStale(c)
  \/ CleanDone
  \/ \E c \in Conns : Unregister(c)
  \/ \E c \in Conns : PingRead(c)
  \/ \E c \in Conns : PingMiss(c)
  \/ \E c \in Conns : PingWrite(c)
  \/ Tick

SpecHub == Init /\ [][HubSteps]_vars

\* The same with viewers that send no message, and with the scheduling of the
\* Go runtime: time passes, a goroutine that can run does, and a goroutine
\* that waits at a channel whose other side is ready again and again gets
\* through.
SilentSteps ==
  \/ \E c \in Conns : Connect(c)
  \/ \E c \in Conns : Disconnect(c)
  \/ \E c \in Conns : Register(c)
  \/ \E c \in Conns, o \in OutEvents : OutputCase(c, o)
  \/ \E c \in Conns : Broadcast(c)
  \/ \E c \in Conns : WriteMessage(c)
  \/ \E c \in Conns : WriteError(c)
  \/ BroadcastDone
  \/ CleanWake
  \/ \E c \in Conns : CleanSkip(c)
  \/ \E c \in Conns : CleanStale(c)
  \/ CleanDone
  \/ \E c \in Conns : Unregister(c)
  \/ Tick

HubWrites == \E c \in Conns : WriteMessage(c) \/ WriteError(c)

Scheduling ==
  /\ WF_vars(Tick)
  /\ WF_vars(CleanWake)
  /\ WF_vars(HubWrites)
  /\ WF_vars(BroadcastDone)
  /\ WF_vars(CleanDone)
  /\ \A c \in Conns :
       /\ WF_vars(CleanSkip(c))
       /\ WF_vars(CleanStale(c))
       /\ SF_vars(Unregister(c))
       /\ SF_vars(Register(c))
       /\ SF_vars(Broadcast(c))

SpecSilent == Init /\ [][SilentSteps]_vars /\ Scheduling

\* One viewer that stays, its handler fed any event, and the hub that writes
\* what the handler broadcasts.
SessionSteps ==
  \/ Connect(Viewer)
  \/ Register(Viewer)
  \/ \E o \in SessOutEvents : OutputCase(Viewer, o)
  \/ \E e \in SessErrEvents : ErrorCase(Viewer, e)
  \/ Broadcast(Viewer)
  \/ WriteMessage(Viewer)
  \/ BroadcastDone

SpecSession == Init /\ [][SessionSteps]_vars

\* Viewers that stay, their handlers sharing the success events of one job.
ShareSteps ==
  \/ \E c \in Conns : Connect(c)
  \/ \E c \in Conns : Register(c)
  \/ \E c \in Conns, o \in ShareEvents : OutputCase(c, o)
  \/ \E c \in Conns : Broadcast(c)
  \/ \E c \in Conns : WriteMessage(c)
  \/ BroadcastDone

SpecShare == Init /\ [][ShareSteps]_vars

\* runHub alone: any connection may arrive at register and at unregister at
\* any time, and time passes.
InletSteps ==
  \/ \E c \in InletConns : RegisterCase(c)
  \/ \E c \in InletConns : UnregisterCase(c)
  \/ Tick

SpecInlets == Init /\ [][InletSteps]_vars

\* ------------------------------------------------- properties, scheduler
\* The runs of job id that have passed the before-run listener and have not
\* yet come to the after-run listener.
Between(id) == {v \in BagToSet(inv) : v.name = id /\ v.pc \in {"task", "exec"}}

\* The runs of job id in progress, their listeners included.
InProgress(id) == {v \in BagToSet(inv) : v.name = id}

\* C2: the running flag of every Job of the Registry is true in the states
\* where some run of it has passed its before-run hook and not yet come to
\* its after-run hook, and false in the states where no run of it is in
\* progress.
C2_RunningBetweenHooks ==
  \A i \in DOMAIN Jobs :
    /\ Between(Jobs[i].Id) # {} => Jobs[i].Running
    /\ Jobs[i].Running => InProgress(Jobs[i].Id) # {}

\* C3: the Registry holds at most one Job per Schedule id, also while calls of
\* the rebuild overlap.
C3_OneJobPerId ==
  \A a, b \in DOMAIN Jobs : a # b => Jobs[a].Id # Jobs[b].Id

\* The number of tasks of the runner that carry this name.
TasksNamed(name) ==
  LET S == {t \in BagToSet(tasks) : t.name = name}
  IN BagCardinality([t \in S |-> tasks[t]])

JobsWithId(id) == Cardinality({i \in DOMAIN Jobs : Jobs[i].Id = id})

\* C4: once a rebuild has completed (and none is in progress), the runner
\* holds exactly one timer task per Job of the Registry: the tasks of earlier
\* rebuilds are gone.
C4_OneTaskPerJob ==
  rb = EmptyBag => \A id \in JobIds : TasksNamed(id) = JobsWithId(id)

\* The schedules for which the creation of the task succeeds, in their order.
Created(l) == SelectSeq(l, LAMBDA sch : sch.Cron \in {"", ValidCron})

\* C5: when a rebuild that ran alone completes, the Registry holds exactly one
\* Job for every supplied Schedule whose task creation succeeded, with an empty
\* cron or not, in the order supplied, none for a Schedule whose task creation
\* failed, and every Job has Running = FALSE and Force = FALSE.
C5_LoneRebuild ==
  \A r \in BagToSet(rb) :
    r.pc = "done" =>
      /\ Len(Jobs) = Len(Created(r.list))
      /\ \A i \in DOMAIN Jobs :
           /\ Jobs[i].Id = Created(r.list)[i].Id
           /\ Jobs[i].Schedule = Created(r.list)[i]
           /\ ~Jobs[i].Running
           /\ ~Jobs[i].Force

\* A lone rebuild has completed on a list whose first schedule fails and whose
\* second, with an empty cron, got its Job.
C5_Witness ==
  \E r \in BagToSet(rb) :
    /\ r.pc = "done"
    /\ Len(r.list) = 2
    /\ r.list[1].Cron = BadCron
    /\ r.list[2].Cron = ""
    /\ Len(Jobs) = 1
    /\ Jobs[1].Id = r.list[2].Id

\* C6: the after-run-error hook emits an event on the error channel: the
\* step that sends its event, the one send of the listener, leaves an event
\* more on the error channel.
C6_ErrorHookEmitsError ==
  [][\A v \in BagToSet(inv) :
       AfterJobRunsWithError(v) => Len(errCh') > Len(errCh)]_vars

\* C7: no reader under the lock runs between two steps of a mutation of the
\* Registry: the Job that FindJobById returned carries the cancel function of
\* its own context.
C7_NoTornRead ==
  \A v \in BagToSet(inv) : v.pc = "exec" => v.job.own

\* ------------------------------------------------------- properties, hub
\* C1: a failed write never leaves runHub waiting on the inlet unregister,
\* which nothing but its own select receives from: the client is removed and
\* the loop goes on.
C1_FailedWriteEvicts == hub.pc = "unregister" => UnregisterReady

\* C8: no step of a websocket handler, of a ping goroutine or of the sweep
\* alone inserts, updates or deletes an entry of clients.
C8_OnlyHubWrites ==
  [][(\/ \E c \in Conns : Connect(c) \/ Disconnect(c)
      \/ \E c \in Conns, o \in OutEvents : OutputCase(c, o)
      \/ \E c \in Conns, e \in ErrEvents : ErrorCase(c, e)
      \/ \E c \in Conns : PingRead(c) \/ PingMiss(c) \/ PingWrite(c)
      \/ \E c \in Conns : CleanSkip(c) \/ CleanStale(c)
      \/ CleanWake \/ CleanDone)
     => UNCHANGED clients]_vars

\* C9: a client not seen for longer than the timeout, whose viewer sends
\* nothing, is eventually removed from clients, unless the process has ended.
C9_SilentClientEvicted ==
  \A c \in Conns :
    (c \in DOMAIN clients /\ clients[c] > Timeout)
      ~> (c \notin DOMAIN clients \/ crashed)

\* C10: once the connection of a viewer has ended, its handler eventually
\* returns (its deferred unregister and Close have run), unless runHub is
\* blocked on its own inlet (C1) or the process has ended.
C10_HandlerReturns ==
  \A c \in Conns :
    (conn[c] = "gone") ~> (sess[c].pc = "off" \/ hub.pc = "unregister" \/ crashed)

\* --------------------------------------------------- properties, tables
\* The places of table that hold a record of job id.
Records(table, id) == {i \in DOMAIN table : table[i].Id = id}

\* A payload the filters let through.
Shown(str) == str # "" /\ str # "{}"

\* C11: whatever success events a handler has processed, its table outs holds
\* at most one record for each job id, and the record of an id carries the
\* payload of the last event processed for it: when the handler processes a
\* success event of a job, the table then holds exactly one record of that
\* job, with the payload of the event, the records of the other jobs are as
\* they were, and the slice it broadcasts holds exactly one entry of that job,
\* with the payload of the event (a payload the filter lets through).
C11_LastWriteWins ==
  [][\A c \in Conns, o \in SessOutEvents :
       (OutputCase(c, o) /\ o.Id # "") =>
         LET outs == sess'[c].outs
             sel == sess'[c].sel
         IN /\ \A id \in SessIds : Cardinality(Records(outs, id)) <= 1
            /\ Cardinality(Records(outs, o.Id)) = 1
            /\ \A i \in Records(outs, o.Id) : outs[i] = WsMsg(o.Id, o.Msg, "")
            /\ \A id \in SessIds \ {o.Id} :
                 {outs[i] : i \in Records(outs, id)}
                   = {sess[c].outs[i] : i \in Records(sess[c].outs, id)}
            /\ Shown(o.Msg) =>
                 /\ Cardinality(Records(sel, o.Id)) = 1
                 /\ \A i \in Records(sel, o.Id) : sel[i].Out = o.Msg]_vars

\* The handler has processed {s1, running true} and broadcast it, and then
\* {s1, running false}: the hub still writes the first payload while the
\* handler holds the second.
C11_Witness ==
  /\ hub.pc = "write"
  /\ hub.msg = Marshal(<<WsMsg("s1", RunningTrue, ""), WsMsg("s2", RunningTrue, "")>>)
  /\ sess[Viewer].pc = "send"
  /\ sess[Viewer].sel = <<WsMsg("s1", RunningFalse, ""), WsMsg("s2", RunningTrue, "")>>

\* C12: every slice a handler submits to broadcast holds, for each job that
\* has emitted a payload the filters let through, one entry that carries in
\* out the latest success payload of the job and in err its latest error
\* payload, whichever channel the event came from: at least, the payloads
\* that the two tables hold at the time are in the slice.
C12_PayloadMergesOutAndErr ==
  \A c \in Conns :
    sess[c].pc = "send" =>
      \A id \in SessIds \ {""} :
        /\ \A i \in Records(sess[c].outs, id) :
             Shown(sess[c].outs[i].Out) =>
               \E k \in Records(sess[c].sel, id) :
                 sess[c].sel[k].Out = sess[c].outs[i].Out
        /\ \A i \in Records(sess[c].errs, id) :
             Shown(sess[c].errs[i].Err) =>
               \E k \in Records(sess[c].sel, id) :
                 sess[c].sel[k].Err = sess[c].errs[i].Err

\* C13: whatever events a handler receives, no slice it broadcasts holds an
\* entry whose payload is the empty string or "{}": the out of an entry of a
\* success broadcast, the err of an entry of an error broadcast.
C13_NothingEmptyBroadcast ==
  [][\A c \in Conns :
       /\ \A o \in SessOutEvents :
            OutputCase(c, o) =>
              /\ \A i \in DOMAIN sess'[c].sel :
                   sess'[c].sel[i].Out # "" /\ sess'[c].sel[i].Out # "{}"
              /\ sess'[c].j = Marshal(sess'[c].sel)
       /\ \A e \in SessErrEvents :
            ErrorCase(c, e) =>
              /\ \A i \in DOMAIN sess'[c].sel :
                   sess'[c].sel[i].Err # "" /\ sess'[c].sel[i].Err # "{}"
              /\ sess'[c].j = Marshal(sess'[c].sel)]_vars

\* The handler broadcasts after a success event while its table holds a
\* record with the payload "{}" and one with the empty payload.
C13_Witness ==
  /\ sess[Viewer].pc = "send"
  /\ sess[Viewer].outs = <<WsMsg("s1", "{}", ""), WsMsg("s2", "", "")>>
  /\ sess[Viewer].errs = <<WsMsg("s1", "", ErrText)>>
  /\ sess[Viewer].j = "[]"

\* ------------------------------------------- properties, run and stop
\* The Job of the Registry that RunJobById and StopJobById act on.
Known(id) == \E i \in DOMAIN Jobs : Jobs[i].Id = id
TheJob(id) == CHOOSE i \in DOMAIN Jobs :
                Jobs[i].Id = id /\ \A k \in 1..(i - 1) : Jobs[k].Id # id

\* C14: StopJobById on a Job that is not running does nothing: no step of the
\* call puts an event on the output channel, changes the Job or calls a
\* cancel function.
C14_StopIdleNoOp ==
  [][\A o \in BagToSet(op) :
       ((StopSend(o) \/ StopCancel(o)) /\ Known(o.id)
          /\ ~Jobs[TheJob(o.id)].Running) =>
         /\ outCh' = outCh
         /\ Jobs' = Jobs
         /\ cancelled' = cancelled]_vars

\* C15: RunJobById and StopJobById with an id that no Job of the Registry has
\* do nothing: the call returns with no Job changed, no cancel function
\* called, no task run, no event on either channel and nothing left to do.
C15_UnknownIdNoOp ==
  [][\A id \in JobIds :
       ((RunJobById(id) \/ StopJobById(id)) /\ ~Known(id)) =>
         /\ Jobs' = Jobs
         /\ cancelled' = cancelled
         /\ inv' = inv
         /\ op' = op
         /\ outCh' = outCh
         /\ errCh' = errCh]_vars

\* The Registry holds the running Job s1 alone and the runner still has the
\* task of s2, a Job of an earlier Registry: s2 and s3 match no Job, and no
\* call is in progress.
C15_Witness ==
  /\ Len(Jobs) = 1
  /\ Jobs[1].Id = "s1"
  /\ Jobs[1].Running
  /\ \E t \in BagToSet(tasks) : t.name = "s2"
  /\ op = EmptyBag
  /\ outCh = <<>>

\* C16: when StopJobById on a running Job returns, after the event running
\* false has been taken from it, the cancel function of the Job has been
\* called and the Registry reports the Job as not running.
C16_StopRunningIdles ==
  [][\A o \in BagToSet(op) :
       (StopCancel(o) /\ Known(o.id) /\ Jobs[TheJob(o.id)].Running) =>
         /\ Known(o.id)'
         /\ Jobs'[TheJob(o.id)'].Cancel \in cancelled'
         /\ ~Jobs'[TheJob(o.id)'].Running]_vars

\* C17: when the after-run listener of a run returns from RecreateCtx and the
\* Registry still holds the Job of the run, the Job has a new cancel function
\* that has not been called: its Cancel is the cancel function of its Ctx,
\* and that context is not cancelled.
C17_AfterRunFreshHandle ==
  [][\A v \in BagToSet(inv) :
       (RecreateCtxCancel(v) /\ v.i <= Len(Jobs)) =>
         \A i \in DOMAIN Jobs' :
           Jobs'[i].job.name = v.name =>
             /\ Jobs'[i].Cancel = Jobs'[i].Ctx
             /\ Jobs'[i].Ctx \notin cancelled']_vars

\* ------------------------------------------- properties, client set
\* C18: when runHub processes unregister for a connection that is not in
\* clients, clients stays as it is; when it processes unregister for one that
\* is, only that entry goes, so that a second unregister of the same
\* connection changes nothing more.
C18_UnregisterIdempotent ==
  [][\A c \in InletConns :
       UnregisterCase(c) =>
         /\ c \notin DOMAIN clients => clients' = clients
         /\ c \notin DOMAIN clients'
         /\ \A d \in DOMAIN clients \ {c} :
              d \in DOMAIN clients' /\ clients'[d] = clients[d]]_vars

\* c2 has been in clients for longer than the timeout, c1 and c3 are not in
\* it: an unregister of c1 or c3 is for a connection that is not there.
C18_Witness ==
  /\ DOMAIN clients = {"c2"}
  /\ clients["c2"] = Timeout + 1
  /\ hub.pc = "select"
  /\ \A c \in Conns : sess[c].pc = "off"

\* C19: a connection that is not in clients comes into it only when runHub
\* processes a register for it: no refresh of LastSeen that races with the
\* removal puts it back.
C19_OnlyRegisterInserts ==
  [][\A c \in Conns :
       (c \notin DOMAIN clients /\ c \in DOMAIN clients') => Register(c)]_vars

\* ------------------------------------------ properties, several viewers
\* C20: with several handlers at work, a success broadcast that reaches the
\* clients carries for each job the payload of its latest success event: once
\* a broadcast has carried the latest payload of a job, no broadcast carries
\* another payload of that job.
C20_NoStaleBroadcast ==
  [][\A c \in Conns :
       (Broadcast(c) /\ DOMAIN clients # {}) =>
         \A i \in DOMAIN sess[c].sel :
           LET m == sess[c].sel[i]
           IN (m.Out # "" /\ m.Id \in DOMAIN emitted /\ emitted[m.Id].shown)
                => m.Out = emitted[m.Id].Out]_vars

\* C21: every run of a Job starts with a context that is not cancelled:
\* when the timer of its task fires or RunJobById runs its task, while the
\* Job is idle and no earlier run of it is in progress, the context the
\* Registry holds for the run has not been cancelled, whatever stops, runs
\* and rebuilds came before.
C21_RunStartsUnfired ==
  [][\A id \in JobIds :
       (/\ \/ \E o \in BagToSet(op) : o.id = id /\ RunNow(o)
           \/ \E t \in BagToSet(tasks) : t.name = id /\ TimerFire(t)
        /\ Known(id)
        /\ ~Jobs[TheJob(id)].Running
        /\ InProgress(id) = {})
         => Jobs[TheJob(id)].Ctx \notin cancelled]_vars

====
